---- MODULE Spec2Model ----
(***************************************************************************)
(* Model of helloaman/lambda/lambda_function.py: the request handlers of   *)
(* the skill, the chain they are registered in, and the dispatch of one    *)
(* inbound request through that chain to one response.                     *)
(*                                                                         *)
(* Python values that may be None are records: None is [none |-> TRUE], a  *)
(* str is [text |-> <<fragments>>] where the fragments are the literals    *)
(* and values the code concatenates, in order.                              *)
(***************************************************************************)
EXTENDS Integers, Sequences, FiniteSets, TLC

VARIABLES
    files,      \* which APL documents of the deployment package load
    pc,         \* position of the dispatch: idle, scan, handle, except, done
    event,      \* the request envelope being dispatched
    idx,        \* position of the scan in the handler chain
    selected,   \* the handler whose can_handle returned True, or "none"
    builder,    \* handler_input.response_builder of the current request
    executed,   \* handlers whose handle() ran for the current request
    raisedBy,   \* what raised in the current request: "none", "dispatch", a handler
    fallbacks,  \* how many times CatchAllExceptionHandler.handle ran
    response,   \* the response returned for the current request
    memo        \* one earlier (request, response) pair, remembered

vars == <<files, pc, event, idx, selected, builder, executed, raisedBy,
          fallbacks, response, memo>>

----------------------------------------------------------------------------
(* Python values *)

None == [none |-> TRUE]

Str(fragments) == [text |-> fragments]

\* a + b on a str-or-None left operand: TypeError when it is None
PyAdd(a, s) ==
    IF a = None
    THEN [raised |-> TRUE, value |-> None]
    ELSE [raised |-> FALSE, value |-> Str(a.text \o <<s>>)]

----------------------------------------------------------------------------
(* Module constants *)

hello_world_doc_path == "helloworldDocument.json"

hello_world_button_doc_path == "helloworldWithButtonDocument.json"

HELLO_WORLD_TOKEN == "helloworldToken"

HELLO_WORLD_WITH_BUTTON_TOKEN == "helloworldWithButtonToken"

AnimateDuration == 3000

\* AnimatedOpacityProperty(to=1.0), in percent
OpacityToPercent == 100

DocPaths == {hello_world_doc_path, hello_world_button_doc_path}

\* _load_apl_document: open + json.load; raises when the file does not load
_load_apl_document(fs, file_path) ==
    IF fs[file_path]
    THEN [raised |-> FALSE, value |-> [document |-> file_path]]
    ELSE [raised |-> TRUE, value |-> None]

----------------------------------------------------------------------------
(* Request envelopes *)

NoName == "<none>"

IntentNames ==
    {"HelloWorldIntent", "HelloWorldWithButtonIntent", "AMAZON.StartOverIntent",
     "okIntent", "CardIntent", "AMAZON.HelpIntent", "AMAZON.CancelIntent",
     "AMAZON.StopIntent", "AMAZON.FallbackIntent"}

SourceIds == {"fadeHelloTextButton", "otherButton", NoName}

ContextTokens == {NoName, HELLO_WORLD_WITH_BUTTON_TOKEN, HELLO_WORLD_TOKEN}

Envelope(kind, name, src, apl, ctx) ==
    [kind |-> kind, intentName |-> name, sourceId |-> src,
     hasAPL |-> apl, contextToken |-> ctx]

\* a visual context is reported only by a device that supports APL
Devices == {d \in BOOLEAN \X ContextTokens : d[2] # NoName => d[1]}

Events ==
    UNION {
        {Envelope("LaunchRequest", NoName, NoName, d[1], d[2]) : d \in Devices},
        {Envelope("IntentRequest", n, NoName, d[1], d[2]) :
            n \in IntentNames, d \in Devices},
        {Envelope("Alexa.Presentation.APL.UserEvent", NoName, s, d[1], d[2]) :
            s \in SourceIds, d \in Devices},
        {Envelope("SessionEndedRequest", NoName, NoName, d[1], d[2]) :
            d \in Devices}
    }

NoEvent == Envelope("<none>", NoName, NoName, FALSE, NoName)

is_request_type(t, ev) == ev.kind = t

is_intent_name(n, ev) == ev.kind = "IntentRequest" /\ ev.intentName = n

----------------------------------------------------------------------------
(* Response builder *)

\* a response builder nothing has been set on
EmptyBuilder ==
    [speech |-> None, reprompt |-> None, card |-> None, directive |-> None]

ResponseFactoryStale(old) == old

\* handler_input.response_builder: a new, empty builder for each request
ResponseFactory(old) == EmptyBuilder

speak(rb, s) == [rb EXCEPT !.speech = s]

ask(rb, s) == [rb EXCEPT !.reprompt = s]

set_card(rb, c) == [rb EXCEPT !.card = c]

add_directive(rb, d) == [rb EXCEPT !.directive = d]

\* the session ends unless a reprompt is set
ShouldEndSession(rb) == rb.reprompt = None

\* response_builder.response
BuildResponse(rb) ==
    [speech |-> rb.speech, reprompt |-> rb.reprompt, card |-> rb.card,
     directive |-> rb.directive, shouldEndSession |-> ShouldEndSession(rb)]

Returned(rb) == [raised |-> FALSE, rb |-> rb]

Raised(rb) == [raised |-> TRUE, rb |-> rb]

RenderDocumentDirective(token, document) ==
    [type |-> "RenderDocument", token |-> token, document |-> document]

AnimateItemCommand ==
    [type |-> "AnimateItem", componentId |-> "helloTextComponent",
     duration |-> AnimateDuration, opacityTo |-> OpacityToPercent]

ExecuteCommandsDirective(token, commands) ==
    [type |-> "ExecuteCommands", token |-> token, commands |-> commands]

SimpleCard(title, content) == [title |-> title, content |-> content]

----------------------------------------------------------------------------
(* Request handlers: can_handle *)

StartOverIntentHandler_can_handle(ev) ==
    is_intent_name("AMAZON.StartOverIntent", ev)

HelloWorldButtonEventHandler_can_handle(ev) ==
    IF is_request_type("Alexa.Presentation.APL.UserEvent", ev)
    THEN ev.sourceId = "fadeHelloTextButton"
    ELSE FALSE

HelloWorldWithButtonIntentHandler_can_handle(ev) ==
    is_intent_name("HelloWorldWithButtonIntent", ev)

HelloWorldIntentHandler_can_handle(ev) ==
    is_intent_name("HelloWorldIntent", ev)

LaunchRequestHandler_can_handle(ev) ==
    is_request_type("LaunchRequest", ev)

okIntentHandler_can_handle(ev) ==
    is_intent_name("okIntent", ev)

CardIntentHandler_can_handle(ev) ==
    is_intent_name("CardIntent", ev)

HelpIntentHandler_can_handle(ev) ==
    is_intent_name("AMAZON.HelpIntent", ev)

CancelOrStopIntentHandler_can_handle(ev) ==
    \/ is_intent_name("AMAZON.CancelIntent", ev)
    \/ is_intent_name("AMAZON.StopIntent", ev)

SessionEndedRequestHandler_can_handle(ev) ==
    is_request_type("SessionEndedRequest", ev)

IntentReflectorHandler_can_handle_typo(ev) ==
    is_request_type("Intent", ev)

IntentReflectorHandler_can_handle(ev) ==
    is_request_type("IntentRequest", ev)

CatchAllExceptionHandler_can_handle(ev) == TRUE

can_handle(h, ev) ==
    CASE h = "LaunchRequestHandler" -> LaunchRequestHandler_can_handle(ev)
      [] h = "HelloWorldIntentHandler" -> HelloWorldIntentHandler_can_handle(ev)
      [] h = "HelloWorldWithButtonIntentHandler" ->
            HelloWorldWithButtonIntentHandler_can_handle(ev)
      [] h = "HelloWorldButtonEventHandler" ->
            HelloWorldButtonEventHandler_can_handle(ev)
      [] h = "StartOverIntentHandler" -> StartOverIntentHandler_can_handle(ev)
      [] h = "okIntentHandler" -> okIntentHandler_can_handle(ev)
      [] h = "CardIntentHandler" -> CardIntentHandler_can_handle(ev)
      [] h = "HelpIntentHandler" -> HelpIntentHandler_can_handle(ev)
      [] h = "CancelOrStopIntentHandler" -> CancelOrStopIntentHandler_can_handle(ev)
      [] h = "SessionEndedRequestHandler" ->
            SessionEndedRequestHandler_can_handle(ev)
      [] h = "IntentReflectorHandler" -> IntentReflectorHandler_can_handle(ev)

----------------------------------------------------------------------------
(* Request handlers: handle.  Each returns [raised, rb]: whether it raised, *)
(* and the response builder as it left it.                                  *)

StartOverIntentHandler_handle_always(ev, rb, fs) ==
    IF ev.hasAPL
    THEN Returned(speak(
            add_directive(rb, ExecuteCommandsDirective(
                HELLO_WORLD_WITH_BUTTON_TOKEN, <<AnimateItemCommand>>)),
            Str(<<"OK, I'm going to try to bring that text back into view.">>)))
    ELSE Raised(rb)

StartOverIntentHandler_handle(ev, rb, fs) ==
    LET speak_output == None IN
    IF ev.hasAPL
    THEN IF ev.contextToken # NoName
            /\ ev.contextToken = HELLO_WORLD_WITH_BUTTON_TOKEN
         THEN Returned(speak(
                add_directive(rb, ExecuteCommandsDirective(
                    HELLO_WORLD_WITH_BUTTON_TOKEN, <<AnimateItemCommand>>)),
                Str(<<"OK, I'm going to try to bring that text back into view.">>)))
         ELSE Returned(speak(rb,
                Str(<<"Hmm, there isn't anything for me to reset. Try invoking the 'hello world with button intent', then click the button and see what happens!">>)))
    ELSE LET sum == PyAdd(speak_output,
                "Hello, this example would be more interesting on a device with a screen. Try it on an Echo Show, Echo Spot or a Fire TV device.")
         IN  IF sum.raised THEN Raised(rb) ELSE Returned(speak(rb, sum.value))

HelloWorldButtonEventHandler_handle(ev, rb, fs) ==
    Returned(ask(
        speak(rb, Str(<<"Thank you for clicking the button! I imagine you already noticed that the text faded away. Tell me to start over to bring it back!">>)),
        Str(<<"Tell me to start over if you want me to bring the text back into view. Or, you can just say hello again.">>)))

HelloWorldWithButtonIntentHandler_handle(ev, rb, fs) ==
    LET speak_output == Str(<<"Hello World!">>) IN
    IF ev.hasAPL
    THEN LET doc == _load_apl_document(fs, hello_world_button_doc_path)
             sum == PyAdd(speak_output,
                " Welcome to Alexa Presentation Language. Click the button to see what happens!")
         IN  IF doc.raised
             THEN Raised(rb)
             ELSE Returned(speak(
                    add_directive(rb, RenderDocumentDirective(
                        HELLO_WORLD_WITH_BUTTON_TOKEN, doc.value)),
                    sum.value))
    ELSE LET sum == PyAdd(speak_output,
                " This example would be more interesting on a device with a screen, such as an Echo Show or Fire TV.")
         IN  Returned(speak(rb, sum.value))

HelloWorldIntentHandler_handle_wrong_token(ev, rb, fs) ==
    LET speak_output == Str(<<"Hello World!">>) IN
    IF ev.hasAPL
    THEN LET doc == _load_apl_document(fs, hello_world_doc_path)
             sum == PyAdd(speak_output,
                " You should now also see my greeting on the screen.")
         IN  IF doc.raised
             THEN Raised(rb)
             ELSE Returned(speak(
                    add_directive(rb, RenderDocumentDirective(
                        HELLO_WORLD_WITH_BUTTON_TOKEN, doc.value)),
                    sum.value))
    ELSE LET sum == PyAdd(speak_output,
                " This example would be more interesting on a device with a screen, such as an Echo Show or Fire TV.")
         IN  Returned(speak(rb, sum.value))

HelloWorldIntentHandler_handle(ev, rb, fs) ==
    LET speak_output == Str(<<"Hello World!">>) IN
    IF ev.hasAPL
    THEN LET doc == _load_apl_document(fs, hello_world_doc_path)
             sum == PyAdd(speak_output,
                " You should now also see my greeting on the screen.")
         IN  IF doc.raised
             THEN Raised(rb)
             ELSE Returned(speak(
                    add_directive(rb, RenderDocumentDirective(
                        HELLO_WORLD_TOKEN, doc.value)),
                    sum.value))
    ELSE LET sum == PyAdd(speak_output,
                " This example would be more interesting on a device with a screen, such as an Echo Show or Fire TV.")
         IN  Returned(speak(rb, sum.value))

LaunchRequestHandler_handle(ev, rb, fs) ==
    LET speak_output ==
            Str(<<"Welcome Aman, you can say Hello or Help. Which would you like to try?">>)
    IN  Returned(ask(speak(rb, speak_output), speak_output))

okIntentHandler_handle_silent(ev, rb, fs) == Returned(rb)

okIntentHandler_handle(ev, rb, fs) ==
    LET speak_output == Str(<<"Hello Aman ok!">>)
    IN  Returned(speak(rb, speak_output))

CardIntentHandler_handle(ev, rb, fs) ==
    LET speech_text ==
            Str(<<"This is the text Alexa speaks. Go to the Alexa app to see the card!">>)
        card_title == "This is the Title of the Card"
        card_text == "This is the card content. This card just has plain text content.\r\nThe content is formated with line breaks to improve readability."
    IN  Returned(set_card(speak(rb, speech_text), SimpleCard(card_title, card_text)))

HelpIntentHandler_handle(ev, rb, fs) ==
    LET speak_output == Str(<<"You can say hello to me! How can I help?">>)
    IN  Returned(ask(speak(rb, speak_output), speak_output))

CancelOrStopIntentHandler_handle_ask(ev, rb, fs) ==
    LET speak_output == Str(<<"Goodbye!">>)
    IN  Returned(ask(speak(rb, speak_output), speak_output))

CancelOrStopIntentHandler_handle(ev, rb, fs) ==
    LET speak_output == Str(<<"Goodbye!">>)
    IN  Returned(speak(rb, speak_output))

SessionEndedRequestHandler_handle(ev, rb, fs) == Returned(rb)

IntentReflectorHandler_handle(ev, rb, fs) ==
    LET intent_name == ev.intentName
        speak_output == Str(<<"You just triggered ", intent_name, ".">>)
    IN  Returned(speak(rb, speak_output))

CatchAllExceptionHandler_handle_no_ask(rb) ==
    speak(rb, Str(<<"Sorry, I had trouble doing what you asked. Please try again.">>))

CatchAllExceptionHandler_handle(rb) ==
    LET speak_output ==
            Str(<<"Sorry, I had trouble doing what you asked. Please try again.">>)
    IN  ask(speak(rb, speak_output), speak_output)

handle(h, ev, rb, fs) ==
    CASE h = "LaunchRequestHandler" -> LaunchRequestHandler_handle(ev, rb, fs)
      [] h = "HelloWorldIntentHandler" -> HelloWorldIntentHandler_handle(ev, rb, fs)
      [] h = "HelloWorldWithButtonIntentHandler" ->
            HelloWorldWithButtonIntentHandler_handle(ev, rb, fs)
      [] h = "HelloWorldButtonEventHandler" ->
            HelloWorldButtonEventHandler_handle(ev, rb, fs)
      [] h = "StartOverIntentHandler" -> StartOverIntentHandler_handle(ev, rb, fs)
      [] h = "okIntentHandler" -> okIntentHandler_handle(ev, rb, fs)
      [] h = "CardIntentHandler" -> CardIntentHandler_handle(ev, rb, fs)
      [] h = "HelpIntentHandler" -> HelpIntentHandler_handle(ev, rb, fs)
      [] h = "CancelOrStopIntentHandler" ->
            CancelOrStopIntentHandler_handle(ev, rb, fs)
      [] h = "SessionEndedRequestHandler" ->
            SessionEndedRequestHandler_handle(ev, rb, fs)
      [] h = "IntentReflectorHandler" -> IntentReflectorHandler_handle(ev, rb, fs)

----------------------------------------------------------------------------
(* The skill: the handler chain and the dispatch of a request through it *)

RequestHandlersReflectorFirst ==
    <<"IntentReflectorHandler",
      "LaunchRequestHandler",
      "HelloWorldIntentHandler",
      "HelloWorldWithButtonIntentHandler",
      "HelloWorldButtonEventHandler",
      "StartOverIntentHandler",
      "okIntentHandler",
      "CardIntentHandler",
      "HelpIntentHandler",
      "CancelOrStopIntentHandler",
      "SessionEndedRequestHandler">>

\* sb.add_request_handler, in the order of the calls
RequestHandlers ==
    <<"LaunchRequestHandler",
      "HelloWorldIntentHandler",
      "HelloWorldWithButtonIntentHandler",
      "HelloWorldButtonEventHandler",
      "StartOverIntentHandler",
      "okIntentHandler",
      "CardIntentHandler",
      "HelpIntentHandler",
      "CancelOrStopIntentHandler",
      "SessionEndedRequestHandler",
      "IntentReflectorHandler">>

AfterHandleKeepScanning(raised) == IF raised THEN "except" ELSE "scan"

\* where the dispatch goes when the selected handler's handle() has ended:
\* to the exception handler when it raised, else to the response
AfterHandle(raised) == IF raised THEN "except" ELSE "done"

NoResponse == [none |-> TRUE]

NoMemo == [event |-> NoEvent, response |-> NoResponse]

Init ==
    /\ files \in [DocPaths -> BOOLEAN]
    /\ pc = "idle"
    /\ event = NoEvent
    /\ idx = 1
    /\ selected = "none"
    /\ builder = EmptyBuilder
    /\ executed = <<>>
    /\ raisedBy = "none"
    /\ fallbacks = 0
    /\ response = NoResponse
    /\ memo = NoMemo

\* lambda_handler is invoked with a request envelope
Receive ==
    /\ pc = "idle"
    /\ \E ev \in Events : event' = ev
    /\ pc' = "scan"
    /\ idx' = 1
    /\ selected' = "none"
    /\ builder' = ResponseFactory(builder)
    /\ executed' = <<>>
    /\ raisedBy' = "none"
    /\ fallbacks' = 0
    /\ response' = NoResponse
    /\ UNCHANGED <<files, memo>>

\* the handler at idx cannot handle the request: try the next one
Skip ==
    /\ pc = "scan"
    /\ idx <= Len(RequestHandlers)
    /\ ~can_handle(RequestHandlers[idx], event)
    /\ idx' = idx + 1
    /\ UNCHANGED <<files, pc, event, selected, builder, executed, raisedBy,
                   fallbacks, response, memo>>

\* the handler at idx can handle the request: it is the one
Select ==
    /\ pc = "scan"
    /\ idx <= Len(RequestHandlers)
    /\ can_handle(RequestHandlers[idx], event)
    /\ selected' = RequestHandlers[idx]
    /\ pc' = "handle"
    /\ UNCHANGED <<files, event, idx, builder, executed, raisedBy, fallbacks,
                   response, memo>>

\* no handler of the chain can handle the request: the dispatch raises
Unroutable ==
    /\ pc = "scan"
    /\ idx > Len(RequestHandlers)
    /\ raisedBy' = "dispatch"
    /\ pc' = "except"
    /\ UNCHANGED <<files, event, idx, selected, builder, executed, fallbacks,
                   response, memo>>

\* the selected handler's handle() runs
Invoke ==
    /\ pc = "handle"
    /\ LET out == handle(selected, event, builder, files) IN
        /\ builder' = out.rb
        /\ executed' = Append(executed, selected)
        /\ raisedBy' = IF out.raised THEN selected ELSE raisedBy
        /\ pc' = AfterHandle(out.raised)
        /\ response' = IF AfterHandle(out.raised) = "done"
                       THEN BuildResponse(out.rb)
                       ELSE response
    /\ UNCHANGED <<files, event, idx, selected, fallbacks, memo>>

\* the exception handler takes over
HandleException ==
    /\ pc = "except"
    /\ CatchAllExceptionHandler_can_handle(event)
    /\ builder' = CatchAllExceptionHandler_handle(builder)
    /\ fallbacks' = fallbacks + 1
    /\ response' = BuildResponse(builder')
    /\ pc' = "done"
    /\ UNCHANGED <<files, event, idx, selected, executed, raisedBy, memo>>

\* the response goes back to the caller, which may remember the exchange
Return ==
    /\ pc = "done"
    /\ pc' = "idle"
    /\ \/ memo' = [event |-> event, response |-> response]
       \/ memo' = memo
    /\ UNCHANGED <<files, event, idx, selected, builder, executed, raisedBy,
                   fallbacks, response>>

Next ==
    \/ Receive
    \/ Skip
    \/ Select
    \/ Unroutable
    \/ Invoke
    \/ HandleException
    \/ Return

Spec == Init /\ [][Next]_vars

TypeOK ==
    /\ pc \in {"idle", "scan", "handle", "except", "done"}
    /\ event \in Events \cup {NoEvent}
    /\ idx \in 1..(Len(RequestHandlers) + 1)
    /\ fallbacks \in 0..1

----------------------------------------------------------------------------
(* Properties *)

Done == pc = "done"

IsIntent(n) == event.kind = "IntentRequest" /\ event.intentName = n

Apology == "Sorry, I had trouble doing what you asked. Please try again."

\* the handler written for each intent name that has one
Dedicated ==
    [n \in IntentNames \ {"AMAZON.FallbackIntent"} |->
        CASE n = "HelloWorldIntent" -> "HelloWorldIntentHandler"
          [] n = "HelloWorldWithButtonIntent" -> "HelloWorldWithButtonIntentHandler"
          [] n = "AMAZON.StartOverIntent" -> "StartOverIntentHandler"
          [] n = "okIntent" -> "okIntentHandler"
          [] n = "CardIntent" -> "CardIntentHandler"
          [] n = "AMAZON.HelpIntent" -> "HelpIntentHandler"
          [] n = "AMAZON.CancelIntent" -> "CancelOrStopIntentHandler"
          [] n = "AMAZON.StopIntent" -> "CancelOrStopIntentHandler"]

NoHandlerMatches(ev) ==
    \A i \in 1..Len(RequestHandlers) : ~can_handle(RequestHandlers[i], ev)

\* C1: an IntentRequest whose intent name has a dedicated handler selects that
\* handler and never the reflector, although the reflector can handle it too;
\* the reflector is selected only for intent names without a dedicated handler.
C1_DedicatedHandlerSelected ==
    /\ (pc \in {"handle", "except", "done"} /\ event.kind = "IntentRequest") =>
            /\ selected # "none"
            /\ IntentReflectorHandler_can_handle(event)
            /\ event.intentName \in DOMAIN Dedicated =>
                    /\ selected = Dedicated[event.intentName]
                    /\ selected # "IntentReflectorHandler"
    /\ selected = "IntentReflectorHandler" =>
            /\ event.kind = "IntentRequest"
            /\ event.intentName \notin DOMAIN Dedicated

C1_Witness ==
    /\ Done
    /\ IsIntent("CardIntent")
    /\ selected = "CardIntentHandler"
    /\ executed = <<"CardIntentHandler">>
    /\ response.card # None

\* C2: at most one registered handler's action runs per request, and the
\* exception handler runs only when no handler matched or the selected
\* handler's action raised, never after an action that returned.
C2_OneActionFallbackOnlyOnFailure ==
    /\ Len(executed) <= 1
    /\ fallbacks <= 1
    /\ executed # <<>> => executed = <<selected>>
    /\ fallbacks > 0 =>
            \/ /\ raisedBy = "dispatch"
               /\ executed = <<>>
               /\ NoHandlerMatches(event)
            \/ /\ raisedBy # "dispatch"
               /\ raisedBy = selected
               /\ executed = <<selected>>
    /\ (Done /\ raisedBy = "none") => (fallbacks = 0 /\ Len(executed) = 1)

C2_Witness ==
    /\ Done
    /\ fallbacks = 1
    /\ executed = <<"HelloWorldIntentHandler">>
    /\ raisedBy = "HelloWorldIntentHandler"

\* C3: when the selected handler's action raises, the response says the
\* apology and carries a reprompt, and the action ran once only.
C3_FailureGivesApology ==
    (Done /\ raisedBy \notin {"none", "dispatch"}) =>
        /\ response.speech = [text |-> <<Apology>>]
        /\ response.reprompt # None
        /\ ~response.shouldEndSession
        /\ executed = <<raisedBy>>
        /\ fallbacks = 1

C3_Witness ==
    /\ Done
    /\ raisedBy = "HelloWorldWithButtonIntentHandler"
    /\ response.speech = [text |-> <<Apology>>]

\* C4: AMAZON.StartOverIntent on a device without a screen: the handler itself
\* returns the screen-suggestion speech, with no directive and no reprompt, and
\* the exception handler does not run.
C4_ResetWithoutScreenReturns ==
    (Done /\ IsIntent("AMAZON.StartOverIntent") /\ ~event.hasAPL) =>
        /\ response.speech = [text |-> <<"Hello, this example would be more interesting on a device with a screen. Try it on an Echo Show, Echo Spot or a Fire TV device.">>]
        /\ response.directive = None
        /\ response.reprompt = None
        /\ executed = <<"StartOverIntentHandler">>
        /\ raisedBy = "none"
        /\ fallbacks = 0

C6_SpeechAlwaysPresent ==
    Done => response.speech # None

\* C6: a response carries a speech text unless the request is a
\* SessionEndedRequest, whose response carries none.
C6_SpeechPresentUnlessSessionEnded ==
    Done => (response.speech = None <=> event.kind = "SessionEndedRequest")

C6_Witness ==
    /\ Done
    /\ event.kind = "SessionEndedRequest"
    /\ executed = <<"SessionEndedRequestHandler">>
    /\ response.speech = None

SameKindIntentCapabilities(e1, e2) ==
    /\ e1.kind = e2.kind
    /\ e1.intentName = e2.intentName
    /\ e1.hasAPL = e2.hasAPL

\* C7 as stated: two requests of the same kind, intent name and device
\* capabilities get identical responses.
C7_SameKindIntentCapabilitiesSameResponse ==
    (Done /\ memo # NoMemo /\ SameKindIntentCapabilities(memo.event, event)) =>
        response = memo.response

\* C7: two requests that agree on kind, intent name, event source id, device
\* capabilities and active visual context get identical responses, whatever
\* was dispatched between them.
C7_SameRequestSameResponse ==
    (Done /\ memo # NoMemo /\ memo.event = event) => response = memo.response

C7_Witness ==
    /\ Done
    /\ memo # NoMemo
    /\ memo.event = event
    /\ IsIntent("AMAZON.StartOverIntent")
    /\ event.contextToken = HELLO_WORLD_WITH_BUTTON_TOKEN
    /\ response = memo.response
    /\ response.directive # None

HelloWorldShape ==
    /\ response.directive # None <=> event.hasAPL
    /\ event.hasAPL =>
            /\ response.directive.type = "RenderDocument"
            /\ response.directive.token = "helloworldToken"
    /\ response.speech # None
    /\ Head(response.speech.text) = "Hello World!"

\* C8 as stated: the response to HelloWorldIntent carries a render-document
\* directive for "helloworldToken" exactly when the device has a screen, and
\* its speech begins with "Hello World!".
C8_DirectiveIffScreen ==
    (Done /\ IsIntent("HelloWorldIntent")) => HelloWorldShape

\* C8: the same, provided the greeting document loads when the device has a
\* screen; when it does not load the response is the apology, with no directive.
C8_DirectiveIffScreenAndDocumentLoads ==
    (Done /\ IsIntent("HelloWorldIntent")) =>
        IF event.hasAPL /\ ~files["helloworldDocument.json"]
        THEN /\ response.speech = [text |-> <<Apology>>]
             /\ response.directive = None
             /\ fallbacks = 1
        ELSE HelloWorldShape

C8_Witness ==
    /\ Done
    /\ IsIntent("HelloWorldIntent")
    /\ event.hasAPL
    /\ files["helloworldDocument.json"]
    /\ response.directive # None
    /\ response.directive.token = "helloworldToken"

\* C9: the response to AMAZON.StartOverIntent carries an execute-commands
\* directive exactly when the device has a screen and the active visual
\* context's token is "helloworldWithButtonToken"; the directive targets that
\* token and animates opacity to 1.0 over 3000 ms.  With a screen and another
\* or no active context the speech says there is nothing to reset, and there
\* is no directive.
C9_ResetDirective ==
    (Done /\ IsIntent("AMAZON.StartOverIntent")) =>
        /\ response.directive # None <=>
                (event.hasAPL /\ event.contextToken = "helloworldWithButtonToken")
        /\ response.directive # None =>
                response.directive =
                    [type |-> "ExecuteCommands",
                     token |-> "helloworldWithButtonToken",
                     commands |-> <<[type |-> "AnimateItem",
                                     componentId |-> "helloTextComponent",
                                     duration |-> 3000,
                                     opacityTo |-> 100]>>]
        /\ (event.hasAPL /\ event.contextToken # "helloworldWithButtonToken") =>
                /\ response.speech = [text |-> <<"Hmm, there isn't anything for me to reset. Try invoking the 'hello world with button intent', then click the button and see what happens!">>]
                /\ response.directive = None

C9_Witness ==
    /\ Done
    /\ IsIntent("AMAZON.StartOverIntent")
    /\ event.hasAPL
    /\ event.contextToken = "helloworldWithButtonToken"
    /\ response.directive # None
    /\ executed = <<"StartOverIntentHandler">>

\* C10: every LaunchRequest, IntentRequest and SessionEndedRequest is matched
\* by a registered handler; no handler matches only for a UserEvent whose
\* source id is not "fadeHelloTextButton", and then no registered handler's
\* action runs.
C10_HandlerCoverage ==
    /\ (pc \in {"except", "done"} /\ event.kind \in
            {"LaunchRequest", "IntentRequest", "SessionEndedRequest"}) =>
            /\ selected # "none"
            /\ raisedBy # "dispatch"
    /\ raisedBy = "dispatch" =>
            /\ event.kind = "Alexa.Presentation.APL.UserEvent"
            /\ event.sourceId # "fadeHelloTextButton"
            /\ selected = "none"
            /\ executed = <<>>
    /\ (pc \in {"except", "done"}
            /\ event.kind = "Alexa.Presentation.APL.UserEvent"
            /\ event.sourceId # "fadeHelloTextButton") =>
            /\ raisedBy = "dispatch"
            /\ executed = <<>>

C10_Witness ==
    /\ Done
    /\ event.kind = "Alexa.Presentation.APL.UserEvent"
    /\ event.sourceId = "otherButton"
    /\ raisedBy = "dispatch"
    /\ executed = <<>>

====
